---- MODULE Spec2Model ----
(***************************************************************************)
(* Model of server/src/common/types.py: the value types of the hazards     *)
(* website (enumerations, Date, DateRange, ImageURL, Location, Satellite,  *)
(* HazardInfoFilter).                                                      *)
(*                                                                         *)
(* A Python str is a sequence of one-character strings.  A Python object   *)
(* is a record with a cls field.  The outcome of a call is a record        *)
(* [exc, val]: exc = "" and val the returned value, or exc the name of the *)
(* exception raised.  The state machine is a caller that invokes one       *)
(* operation of the library on some arguments, holds the outcome, and      *)
(* goes back to idle; the system clock advances between calls.             *)
(***************************************************************************)
EXTENDS Integers, Sequences, FiniteSets, TLC

VARIABLES now, ticks, op, arg, res

vars == <<now, ticks, op, arg, res>>

----------------------------------------------------------------------------
(* Outcomes and None *)

NoneVal == [cls |-> "NoneType"]

IsNone(x) == x.cls = "NoneType"

Returned(v) == [exc |-> "", val |-> v]

Raised(e) == [exc |-> e, val |-> NoneVal]

----------------------------------------------------------------------------
(* Python str primitives *)

LowerLetters == <<"a","b","c","d","e","f","g","h","i","j","k","l","m",
                  "n","o","p","q","r","s","t","u","v","w","x","y","z">>

UpperLetters == <<"A","B","C","D","E","F","G","H","I","J","K","L","M",
                  "N","O","P","Q","R","S","T","U","V","W","X","Y","Z">>

UpperChar(c) ==
    IF \E i \in DOMAIN LowerLetters : LowerLetters[i] = c
    THEN UpperLetters[CHOOSE i \in DOMAIN LowerLetters : LowerLetters[i] = c]
    ELSE c

LowerChar(c) ==
    IF \E i \in DOMAIN UpperLetters : UpperLetters[i] = c
    THEN LowerLetters[CHOOSE i \in DOMAIN UpperLetters : UpperLetters[i] = c]
    ELSE c

\* str.upper() and str.lower()
StrUpper(s) == [i \in 1..Len(s) |-> UpperChar(s[i])]

StrLower(s) == [i \in 1..Len(s) |-> LowerChar(s[i])]

\* The decimal digits, and digits that are Unicode digits without being
\* decimal: str.isdigit() accepts both, int() accepts only the former.
DecimalDigits == <<"0","1","2","3","4","5","6","7","8","9">>

SuperscriptDigits == {"sup2", "sup3"}

IsDecimalChar(c) == \E i \in DOMAIN DecimalDigits : DecimalDigits[i] = c

DigitValue(c) == (CHOOSE i \in DOMAIN DecimalDigits : DecimalDigits[i] = c) - 1

\* str.isdigit(): non-empty and every character has the Unicode digit property
StrIsDigit(s) ==
    /\ Len(s) > 0
    /\ \A i \in 1..Len(s) : IsDecimalChar(s[i]) \/ s[i] \in SuperscriptDigits

RECURSIVE DecimalValue(_)
DecimalValue(s) ==
    IF Len(s) = 0 THEN 0
    ELSE 10 * DecimalValue(SubSeq(s, 1, Len(s) - 1)) + DigitValue(s[Len(s)])

\* int(s) for a str s: the base-10 value of a string of decimal digits,
\* ValueError for a string that is not a decimal literal
IntOfStr(s) ==
    IF Len(s) > 0 /\ \A i \in 1..Len(s) : IsDecimalChar(s[i])
    THEN Returned(DecimalValue(s))
    ELSE Raised("ValueError")

RECURSIVE NatToStr(_)
NatToStr(n) ==
    IF n < 10 THEN <<DecimalDigits[n + 1]>>
    ELSE NatToStr(n \div 10) \o <<DecimalDigits[(n % 10) + 1]>>

\* str(n) for an int n
StrOfInt(n) == IF n < 0 THEN <<"-">> \o NatToStr(-n) ELSE NatToStr(n)

\* "%02d" / "%04d" as strftime pads its fields
RECURSIVE ZeroPad(_, _)
ZeroPad(s, width) == IF Len(s) >= width THEN s ELSE ZeroPad(<<"0">> \o s, width)

----------------------------------------------------------------------------
(* The system clock: a calendar date *)

IsLeap(y) == (y % 4 = 0 /\ y % 100 # 0) \/ y % 400 = 0

DaysInMonth(y, m) ==
    IF m = 2 THEN (IF IsLeap(y) THEN 29 ELSE 28)
    ELSE IF m \in {4, 6, 9, 11} THEN 30 ELSE 31

NextDay(c) ==
    IF c.d < DaysInMonth(c.y, c.m) THEN [c EXCEPT !.d = c.d + 1]
    ELSE IF c.m < 12 THEN [y |-> c.y, m |-> c.m + 1, d |-> 1]
    ELSE [y |-> c.y + 1, m |-> 1, d |-> 1]

\* datetime.now().strftime("%Y%m%d")
Strftime(c) ==
    ZeroPad(NatToStr(c.y), 4) \o ZeroPad(NatToStr(c.m), 2) \o ZeroPad(NatToStr(c.d), 2)

----------------------------------------------------------------------------
(* The enumerations: __members__ is the set of member names *)

HazardTypeMembers ==
    { <<"V","O","L","C","A","N","O">>,
      <<"E","A","R","T","H","Q","U","A","K","E">> }

ImageTypeMembers ==
    { <<"G","E","O","_","B","A","C","K","S","C","A","T","T","E","R">>,
      <<"G","E","O","_","C","O","H","E","R","E","N","C","E">>,
      <<"G","E","O","_","I","N","T","E","R","F","E","R","O","G","R","A","M">>,
      <<"O","R","T","H","O","_","B","A","C","K","S","C","A","T","T","E","R">>,
      <<"O","R","T","H","O","_","C","O","H","E","R","E","N","C","E">>,
      <<"O","R","T","H","O","_","I","N","T","E","R","F","E","R","O","G","R","A","M">> }

SatelliteEnumMembers ==
    { <<"E","R","S">>,
      <<"E","N","V">>,
      <<"S","1","A">>,
      <<"R","S","1">>,
      <<"R","S","2">>,
      <<"C","S","K">>,
      <<"T","S","X">>,
      <<"J","E","R","S">>,
      <<"A","L","O","S">>,
      <<"A","L","O","S","2">>,
      <<"N","I","S","A","R">> }

Member(cls, name) == [cls |-> cls, name |-> name]

\* HazardType.from_string
HazardType_from_string(string) ==
    LET upper_string == StrUpper(string)
    IN IF upper_string \in HazardTypeMembers
       THEN Returned(Member("HazardType", upper_string))
       ELSE Raised("ValueError")

\* HazardType.to_string
HazardType_to_string(self) == StrLower(self.name)

\* ImageType.from_string
ImageType_from_string(string) ==
    LET upper_string == StrUpper(string)
    IN IF upper_string \in ImageTypeMembers
       THEN Returned(Member("ImageType", upper_string))
       ELSE Raised("ValueError")

\* ImageType.to_string
ImageType_to_string(self) == StrLower(self.name)

\* SatelliteEnum.from_string
SatelliteEnum_from_string(string) ==
    LET upper_string == StrUpper(string)
    IN IF upper_string \in SatelliteEnumMembers
       THEN Returned(Member("SatelliteEnum", upper_string))
       ELSE Raised("ValueError")

\* a bug: SatelliteEnum renders like the other two enumerations
SatelliteEnum_to_string_lower(self) == StrLower(self.name)

\* SatelliteEnum.to_string
SatelliteEnum_to_string(self) == StrUpper(self.name)

----------------------------------------------------------------------------
(* Date *)

DateObj(date) == [cls |-> "Date", date |-> date]

\* Date.is_valid_date: the nested checks, in the order the code makes them;
\* int() of a slice can raise
Date_is_valid_date(possible_date) ==
    IF Len(possible_date) = 8
    THEN IF StrIsDigit(possible_date)
         THEN LET month == IntOfStr(SubSeq(possible_date, 5, 6))
                  day == IntOfStr(SubSeq(possible_date, 7, Len(possible_date)))
              IN IF month.exc # "" THEN Raised(month.exc)
                 ELSE IF 1 <= month.val /\ month.val <= 12
                      THEN IF day.exc # "" THEN Raised(day.exc)
                           ELSE IF 1 <= day.val /\ day.val <= 31
                                THEN Returned(TRUE)
                                ELSE Returned(FALSE)
                      ELSE Returned(FALSE)
         ELSE Returned(FALSE)
    ELSE Returned(FALSE)

\* Date.__init__
Date_init(date) ==
    LET valid == Date_is_valid_date(date)
    IN IF valid.exc # "" THEN Raised(valid.exc)
       ELSE IF valid.val THEN Returned(DateObj(date))
       ELSE Raised("ValueError")

\* Date.to_integer
Date_to_integer(self) == IntOfStr(self.date)

\* Date.get_today
Date_get_today(clock) == Date_init(Strftime(clock))

\* int(x) for x an instance of Date: the class defines no __int__,
\* __index__ or __trunc__
IntOfDate(x) == Raised("TypeError")

----------------------------------------------------------------------------
(* DateRange *)

\* DateRange.__init__
DateRange_init(start, end) == [cls |-> "DateRange", start |-> start, end |-> end]

\* DateRange.date_in_range: end_date, then the chained comparison
\* int(self.start) <= int(date.date) <= int(end_date), evaluated left to
\* right, the third operand only when the first comparison is true
DateRange_date_in_range(self, date, clock) ==
    LET today == Date_get_today(clock)
        lo == IntOfDate(self.start)
        mid == IntOfStr(date.date)
    IN IF IsNone(self.end) /\ today.exc # "" THEN Raised(today.exc)
       ELSE LET end_date == IF ~IsNone(self.end) THEN self.end ELSE today.val
                hi == IntOfDate(end_date)
            IN IF lo.exc # "" THEN Raised(lo.exc)
               ELSE IF mid.exc # "" THEN Raised(mid.exc)
               ELSE IF ~(lo.val <= mid.val) THEN Returned(FALSE)
               ELSE IF hi.exc # "" THEN Raised(hi.exc)
               ELSE Returned(mid.val <= hi.val)

----------------------------------------------------------------------------
(* ImageURL *)

\* str.rfind(c), 1-based, 0 when c does not occur
RFind(s, c) ==
    IF \E i \in 1..Len(s) : s[i] = c
    THEN CHOOSE i \in 1..Len(s) : s[i] = c /\ \A j \in (i + 1)..Len(s) : s[j] # c
    ELSE 0

\* os.path.splitext(p) on a POSIX host: the extension starts at the last
\* dot, if that dot lies in the last path component and some character
\* before it in that component is not a dot
Splitext(p) ==
    LET sepIndex == RFind(p, "/")
        dotIndex == RFind(p, ".")
    IN IF dotIndex > sepIndex /\ \E k \in (sepIndex + 1)..(dotIndex - 1) : p[k] # "."
       THEN <<SubSeq(p, 1, dotIndex - 1), SubSeq(p, dotIndex, Len(p))>>
       ELSE <<p, <<>>>>

valid_extensions ==
    { <<".","j","p","g">>, <<".","p","n","g">>, <<".","t","i","f">>, <<".","g","i","f">> }

\* a bug: the extension is compared without regard to case
ImageURL_is_valid_url_any_case(url) ==
    LET file_extension == Splitext(url)[2]
    IN IF StrLower(file_extension) \notin valid_extensions THEN FALSE ELSE TRUE

\* ImageURL.is_valid_url
ImageURL_is_valid_url(url) ==
    LET file_extension == Splitext(url)[2]
    IN IF file_extension \notin valid_extensions THEN FALSE ELSE TRUE

\* ImageURL.__init__
ImageURL_init(url) ==
    IF ImageURL_is_valid_url(url)
    THEN Returned([cls |-> "ImageURL", url |-> url])
    ELSE Raised("ValueError")

----------------------------------------------------------------------------
(* LatLong and Location.  A float is [nan, v]: not-a-number, or the number *)
(* v; every comparison with a NaN is false.                                *)

Float(v) == [nan |-> FALSE, v |-> v]

NaN == [nan |-> TRUE, v |-> 0]

FloatLe(a, b) == ~a.nan /\ ~b.nan /\ a.v <= b.v

\* LatLong.__init__
LatLong_init(lat, long) == [cls |-> "LatLong", lat |-> lat, long |-> long]

\* a bug: the poles are excluded
Location_validate_latitude_strict(lat) ==
    /\ FloatLe(Float(-90), lat.lat) /\ lat.lat # Float(-90)
    /\ FloatLe(lat.lat, Float(90)) /\ lat.lat # Float(90)

\* Location.validate_latitude
Location_validate_latitude(lat) == FloatLe(Float(-90), lat.lat) /\ FloatLe(lat.lat, Float(90))

\* Location.validate_longitude
Location_validate_longitude(lon) == FloatLe(Float(-180), lon.long) /\ FloatLe(lon.long, Float(180))

\* Location.__init__
Location_init(center) ==
    LET valid_lats == Location_validate_latitude(center)
        valid_lons == Location_validate_longitude(center)
    IN IF valid_lats /\ valid_lons
       THEN Returned([cls |-> "Location", center |-> center])
       ELSE Raised("Exception")

----------------------------------------------------------------------------
(* Satellite *)

\* Satellite(satellite_id, ascending), the dataclass constructor
SatelliteObj(satellite_id, ascending) ==
    [cls |-> "Satellite", satellite_id |-> satellite_id, ascending |-> ascending]

\* Satellite.to_string
Satellite_to_string(self) ==
    LET sat_id_str == SatelliteEnum_to_string(self.satellite_id)
    IN IF self.ascending
       THEN sat_id_str \o <<"_","A","S","C">>
       ELSE sat_id_str \o <<"_","D","E","S","C">>

Contains(s, c) == \E i \in 1..Len(s) : s[i] = c

\* str.split(sep) for a one-character sep
RECURSIVE StrSplit(_, _)
StrSplit(s, sep) ==
    IF ~Contains(s, sep) THEN <<s>>
    ELSE LET i == CHOOSE k \in 1..Len(s) : s[k] = sep /\ \A j \in 1..(k - 1) : s[j] # sep
         IN <<SubSeq(s, 1, i - 1)>> \o StrSplit(SubSeq(s, i + 1, Len(s)), sep)

AscDescWords ==
    { <<"a","s","c">>, <<"d","e","s","c">>, <<"b","o","t","h">> }

\* a bug: the suffix is compared without lower()
Satellite_from_string_case_sensitive(raw_satellite) ==
    LET parts == StrSplit(raw_satellite, "_")
        has_sep == Contains(raw_satellite, "_")
        asc_or_desc == IF has_sep THEN parts[2] ELSE <<"b","o","t","h">>
        sat_id == IF has_sep THEN parts[1] ELSE raw_satellite
        sat_enum == SatelliteEnum_from_string(sat_id)
        asc_satellite == SatelliteObj(sat_enum.val, TRUE)
        desc_satellite == SatelliteObj(sat_enum.val, FALSE)
    IN IF has_sep /\ Len(parts) # 2 THEN Raised("ValueError")
       ELSE IF has_sep /\ asc_or_desc \notin AscDescWords
            THEN Raised("AscendingParseException")
       ELSE IF sat_enum.exc # "" THEN Raised(sat_enum.exc)
       ELSE IF asc_or_desc = <<"b","o","t","h">>
            THEN Returned(<<asc_satellite, desc_satellite>>)
       ELSE IF asc_or_desc = <<"a","s","c">> THEN Returned(<<asc_satellite>>)
       ELSE Returned(<<desc_satellite>>)

\* Satellite.from_string.  Unpacking the split into two names raises
\* ValueError unless the split has exactly two parts.
Satellite_from_string(raw_satellite) ==
    LET parts == StrSplit(raw_satellite, "_")
        has_sep == Contains(raw_satellite, "_")
        asc_or_desc == IF has_sep THEN StrLower(parts[2]) ELSE <<"b","o","t","h">>
        sat_id == IF has_sep THEN parts[1] ELSE raw_satellite
        sat_enum == SatelliteEnum_from_string(sat_id)
        asc_satellite == SatelliteObj(sat_enum.val, TRUE)
        desc_satellite == SatelliteObj(sat_enum.val, FALSE)
    IN IF has_sep /\ Len(parts) # 2 THEN Raised("ValueError")
       ELSE IF has_sep /\ asc_or_desc \notin AscDescWords
            THEN Raised("AscendingParseException")
       ELSE IF sat_enum.exc # "" THEN Raised(sat_enum.exc)
       ELSE IF asc_or_desc = <<"b","o","t","h">>
            THEN Returned(<<asc_satellite, desc_satellite>>)
       ELSE IF asc_or_desc = <<"a","s","c">> THEN Returned(<<asc_satellite>>)
       ELSE Returned(<<desc_satellite>>)

----------------------------------------------------------------------------
(* HazardInfoFilter.  An Optional[int] is None or [cls |-> "int", v |-> n]; *)
(* an Optional[List] is None or [cls |-> "list", items |-> <<...>>].        *)

IntObj(n) == [cls |-> "int", v |-> n]

ListObj(items) == [cls |-> "list", items |-> items]

\* the truth value of an Optional[int], as "if last_n_days:" tests it
Truthy(x) == ~IsNone(x) /\ x.v # 0

\* a bug: without last_n_days the explicit date_range is dropped
new_date_range_dropped(date_range, last_n_days, last_n_days_date) ==
    IF Truthy(last_n_days)
    THEN IF IsNone(date_range)
         THEN DateRange_init(last_n_days_date, NoneVal)
         ELSE DateRange_init(last_n_days_date, date_range.end)
    ELSE NoneVal

\* HazardInfoFilter.__init__, the combination of date_range and last_n_days
\* into new_date_range
new_date_range(date_range, last_n_days, last_n_days_date) ==
    IF Truthy(last_n_days)
    THEN IF IsNone(date_range)
         THEN DateRange_init(last_n_days_date, NoneVal)
         ELSE DateRange_init(last_n_days_date, date_range.end)
    ELSE date_range

\* HazardInfoFilter.__init__
HazardInfoFilter_init(satellites, image_types, date_range, max_num_images, last_n_days, clock) ==
    LET today == Date_get_today(clock)
        today_int == IntOfStr(today.val.date)
        last_n_days_date == Date_init(StrOfInt(today_int.val - last_n_days.v))
    IN IF Truthy(last_n_days) /\ today.exc # "" THEN Raised(today.exc)
       ELSE IF Truthy(last_n_days) /\ today_int.exc # "" THEN Raised(today_int.exc)
       ELSE IF Truthy(last_n_days) /\ last_n_days_date.exc # ""
            THEN Raised(last_n_days_date.exc)
       ELSE Returned([cls |-> "HazardInfoFilter",
                      satellites |-> satellites,
                      image_types |-> image_types,
                      max_num_images |-> max_num_images,
                      date_range |-> new_date_range(date_range, last_n_days,
                                                    last_n_days_date.val)])

----------------------------------------------------------------------------
(* Bounds of the model *)

\* days the clock advances in one behaviour
MaxTicks == 3

\* pieces an input URL is put together from
MaxPieces == 3

\* largest last_n_days
MaxDays == 10

\* largest max_num_images
MaxImages == 2

----------------------------------------------------------------------------
(* Inputs *)

\* the clock at start: before a year's end, before a leap day, mid-month
StartDays ==
    { [y |-> 2019, m |-> 12, d |-> 30],
      [y |-> 2020, m |-> 2, d |-> 27],
      [y |-> 2020, m |-> 6, d |-> 14] }

\* name with the characters lo..hi in lower case
Casings(name) ==
    { [i \in 1..Len(name) |-> IF lo <= i /\ i <= hi THEN LowerChar(name[i]) ELSE name[i]] :
        lo \in 1..(Len(name) + 1), hi \in 0..Len(name) }

\* every such casing of every member name, and strings that are no member
\* name: a name cut short, a name with more text, a plural, the empty string
NearMisses(members) ==
    UNION { { SubSeq(n, 1, Len(n) - 1), SubSeq(n, 2, Len(n)), n \o <<"S">>,
              StrLower(n) \o <<"e","s">>, <<" ">> \o n, n \o n } : n \in members }

EnumStrings(members) ==
    UNION { Casings(n) : n \in members } \cup NearMisses(members) \cup { <<>> }

AllMemberNames == HazardTypeMembers \cup ImageTypeMembers \cup SatelliteEnumMembers

HazardTypeStrings == EnumStrings(HazardTypeMembers) \cup AllMemberNames

ImageTypeStrings == EnumStrings(ImageTypeMembers) \cup AllMemberNames

SatelliteEnumStrings == EnumStrings(SatelliteEnumMembers) \cup AllMemberNames

YearParts == { <<"0","0","0","0">>, <<"2","0","1","9">>, <<"2","0","2","0">>, <<"2","0","2">>, <<"2","0","2","0","0">>, <<"2","0","a","0">>, <<"sup2","0","2","0">> }

MonthParts == { <<"0","0">>, <<"0","1">>, <<"1","2">>, <<"1","3">>, <<"1">>, <<"1","a">>, <<"1","sup2">> }

DayParts == { <<"0","0">>, <<"0","1">>, <<"3","1">>, <<"3","2">>, <<"0","1","1">>, <<"3","b">>, <<"0","sup3">> }

DateStrings == { y \o m \o d : y \in YearParts, m \in MonthParts, d \in DayParts }

\* Date objects as the constructor makes them
SampleDates ==
    { Date_init(Strftime(c)).val : c \in StartDays \cup { NextDay(NextDay(c)) : c \in StartDays } }

SampleDateRanges ==
    { DateRange_init(s, e) : s \in SampleDates, e \in SampleDates \cup { NoneVal } }

\* the explicit date_range of a filter: None, or a range with or without an end
FilterDateRanges ==
    { NoneVal } \cup
    { DateRange_init(Date_init(Strftime(s)).val, e) :
        s \in StartDays,
        e \in { NoneVal, Date_init(Strftime([y |-> 2020, m |-> 12, d |-> 31])).val } }

UrlPieces ==
    { <<"a">>,
      <<".">>,
      <<"/">>,
      <<".","j","p","g">>,
      <<".","p","n","g">>,
      <<".","t","i","f">>,
      <<".","g","i","f">>,
      <<".","J","P","G">>,
      <<".","b","m","p">>,
      <<"j","p","g">> }

RECURSIVE UrlsOf(_)
UrlsOf(n) ==
    IF n = 0 THEN { <<>> }
    ELSE LET shorter == UrlsOf(n - 1)
         IN shorter \cup { u \o q : u \in shorter, q \in UrlPieces }

UrlStrings == UrlsOf(MaxPieces)

FloatValues ==
    { Float(v) : v \in { -181, -180, -179, -91, -90, -89, 0, 89, 90, 91, 179, 180, 181 } }
        \cup { NaN }

SatIdStrings ==
    SatelliteEnumMembers \cup Casings(<<"S","1","A">>) \cup Casings(<<"A","L","O","S","2">>)
        \cup { <<>>, <<"X","Y","Z">>, <<"S","1">>, <<"A","L","O","S","3">> }

SuffixStrings ==
    { <<>>,
      <<"_","a","s","c">>,
      <<"_","A","S","C">>,
      <<"_","A","s","c">>,
      <<"_","d","e","s","c">>,
      <<"_","D","E","S","C">>,
      <<"_","b","o","t","h">>,
      <<"_","B","o","T","h">>,
      <<"_","x","y","z">>,
      <<"_">>,
      <<"_","a","s">>,
      <<"_","a","s","c","e","n","d","i","n","g">>,
      <<"_","a","s","c","_","d","e","s","c">>,
      <<"_","_","a","s","c">>,
      <<"_","x","_","y">>,
      <<"_","b","o","t","h","_">> }

SatelliteStrings == { s \o x : s \in SatIdStrings, x \in SuffixStrings }

SampleSatelliteLists ==
    { NoneVal,
      ListObj(Satellite_from_string(<<"S","1","A">>).val),
      ListObj(Satellite_from_string(<<"E","R","S","_","d","e","s","c">>).val) }

SampleImageTypeLists ==
    { NoneVal,
      ListObj(<<ImageType_from_string(<<"g","e","o","_","c","o","h","e","r","e","n","c","e">>).val>>) }

LastNDaysValues == { NoneVal } \cup { IntObj(n) : n \in -1..MaxDays }

----------------------------------------------------------------------------
(* The state machine *)

Idle == op = "idle"

Init ==
    /\ now \in StartDays
    /\ ticks = 0
    /\ op = "idle"
    /\ arg = NoneVal
    /\ res = Returned(NoneVal)

\* the caller has invoked name on a and holds the outcome r
Call(name, a, r) ==
    /\ op' = name
    /\ arg' = a
    /\ res' = r
    /\ UNCHANGED <<now, ticks>>

\* the system clock reaches the next day
Tick ==
    /\ Idle
    /\ ticks < MaxTicks
    /\ now' = NextDay(now)
    /\ ticks' = ticks + 1
    /\ UNCHANGED <<op, arg, res>>

\* the caller is done with the outcome
Discard ==
    /\ ~Idle
    /\ op' = "idle"
    /\ arg' = NoneVal
    /\ res' = Returned(NoneVal)
    /\ UNCHANGED <<now, ticks>>

HazardTypeFromString ==
    /\ Idle
    /\ \E s \in HazardTypeStrings :
           Call("HazardType.from_string", [string |-> s], HazardType_from_string(s))

HazardTypeToString ==
    /\ Idle
    /\ \E n \in HazardTypeMembers :
           Call("HazardType.to_string", [self |-> Member("HazardType", n)],
                Returned(HazardType_to_string(Member("HazardType", n))))

ImageTypeFromString ==
    /\ Idle
    /\ \E s \in ImageTypeStrings :
           Call("ImageType.from_string", [string |-> s], ImageType_from_string(s))

ImageTypeToString ==
    /\ Idle
    /\ \E n \in ImageTypeMembers :
           Call("ImageType.to_string", [self |-> Member("ImageType", n)],
                Returned(ImageType_to_string(Member("ImageType", n))))

SatelliteEnumFromString ==
    /\ Idle
    /\ \E s \in SatelliteEnumStrings :
           Call("SatelliteEnum.from_string", [string |-> s], SatelliteEnum_from_string(s))

SatelliteEnumToString ==
    /\ Idle
    /\ \E n \in SatelliteEnumMembers :
           Call("SatelliteEnum.to_string", [self |-> Member("SatelliteEnum", n)],
                Returned(SatelliteEnum_to_string(Member("SatelliteEnum", n))))

\* Date(date)
DateInit ==
    /\ Idle
    /\ \E s \in DateStrings : Call("Date", [date |-> s], Date_init(s))

\* Date(date).to_integer(), for a date the constructor accepts
DateToInteger ==
    /\ Idle
    /\ \E s \in DateStrings :
           /\ Date_init(s).exc = ""
           /\ Call("Date.to_integer", [self |-> Date_init(s).val],
                   Date_to_integer(Date_init(s).val))

DateRangeDateInRange ==
    /\ Idle
    /\ \E r \in SampleDateRanges, d \in SampleDates :
           Call("DateRange.date_in_range", [self |-> r, date |-> d],
                DateRange_date_in_range(r, d, now))

\* ImageURL(url)
ImageURLInit ==
    /\ Idle
    /\ \E u \in UrlStrings : Call("ImageURL", [url |-> u], ImageURL_init(u))

\* Location(LatLong(lat, long))
LocationInit ==
    /\ Idle
    /\ \E lat \in FloatValues, long \in FloatValues :
           Call("Location", [center |-> LatLong_init(lat, long)],
                Location_init(LatLong_init(lat, long)))

SatelliteFromString ==
    /\ Idle
    /\ \E s \in SatelliteStrings :
           Call("Satellite.from_string", [raw_satellite |-> s], Satellite_from_string(s))

\* HazardInfoFilter(satellites, image_types, date_range, max_num_images, last_n_days)
HazardInfoFilterInit ==
    /\ Idle
    /\ \E sats \in SampleSatelliteLists, types \in SampleImageTypeLists,
          dr \in FilterDateRanges, mx \in 0..MaxImages, n \in LastNDaysValues :
           Call("HazardInfoFilter",
                [satellites |-> sats, image_types |-> types, date_range |-> dr,
                 max_num_images |-> mx, last_n_days |-> n],
                HazardInfoFilter_init(sats, types, dr, mx, n, now))

Next ==
    \/ Tick
    \/ Discard
    \/ HazardTypeFromString
    \/ HazardTypeToString
    \/ ImageTypeFromString
    \/ ImageTypeToString
    \/ SatelliteEnumFromString
    \/ SatelliteEnumToString
    \/ DateInit
    \/ DateToInteger
    \/ DateRangeDateInRange
    \/ ImageURLInit
    \/ LocationInit
    \/ SatelliteFromString
    \/ HazardInfoFilterInit

Spec == Init /\ [][Next]_vars

----------------------------------------------------------------------------
(* Properties *)

\* two characters that are the same letter in either case, or equal
SameLetter(a, b) ==
    \/ a = b
    \/ \E i \in DOMAIN LowerLetters : {a, b} = {LowerLetters[i], UpperLetters[i]}

\* s is name in some letter-casing
CaseVariantOf(s, name) ==
    /\ Len(s) = Len(name)
    /\ \A i \in 1..Len(name) : SameLetter(s[i], name[i])

IsLowerCase(s) == \A i \in 1..Len(s) : \A k \in DOMAIN UpperLetters : s[i] # UpperLetters[k]

IsUpperCase(s) == \A i \in 1..Len(s) : \A k \in DOMAIN LowerLetters : s[i] # LowerLetters[k]

\* the YYYYMMDD numeral of the clock's day
TodayNumeral == now.y * 10000 + now.m * 100 + now.d

\* a string of the decimal digits 0-9 only
AllDecimal(s) == \A i \in 1..Len(s) : IsDecimalChar(s[i])

\* the base-10 value of such a string, most significant digit first
RECURSIVE Base10(_, _)
Base10(s, acc) == IF Len(s) = 0 THEN acc ELSE Base10(Tail(s), 10 * acc + DigitValue(Head(s)))

\* C1: DateRange.date_in_range(d) returns a boolean, never fails, and the
\* boolean is true iff start's numeral <= d's numeral <= E, E being end's
\* numeral when end is set and today's numeral otherwise.
C1_DateInRangeReturnsMembership ==
    op = "DateRange.date_in_range" =>
        LET S == Base10(arg.self.start.date, 0)
            D == Base10(arg.date.date, 0)
            E == IF IsNone(arg.self.end) THEN TodayNumeral ELSE Base10(arg.self.end.date, 0)
        IN /\ res.exc = ""
           /\ res.val = (S <= D /\ D <= E)

\* C2: with a positive last_n_days, HazardInfoFilter construction succeeds
\* on every day; the date_range's start numeral is today's numeral minus
\* last_n_days, its end the explicit date_range's end, or unset.
C2_LastNDaysAlwaysConstructs ==
    (op = "HazardInfoFilter" /\ ~IsNone(arg.last_n_days) /\ arg.last_n_days.v > 0) =>
        /\ res.exc = ""
        /\ Base10(res.val.date_range.start.date, 0) = TodayNumeral - arg.last_n_days.v
        /\ res.val.date_range.end =
               (IF IsNone(arg.date_range) THEN NoneVal ELSE arg.date_range.end)

\* the text of s after its first, and after its last, occurrence of c
AfterFirst(s, c) ==
    SubSeq(s, (CHOOSE k \in 1..Len(s) : s[k] = c /\ \A j \in 1..(k - 1) : s[j] # c) + 1, Len(s))

AfterLast(s, c) ==
    SubSeq(s, (CHOOSE k \in 1..Len(s) : s[k] = c /\ \A j \in (k + 1)..Len(s) : s[j] # c) + 1, Len(s))

IsDirectionWord(s) == \E w \in AscDescWords : CaseVariantOf(s, w)

\* C3: a token with one or several underscores whose text after the
\* underscore (read from the first or from the last underscore) is not
\* asc, desc or both in any casing fails with AscendingParseException,
\* whatever its SATID part.
C3_BadSuffixIsAscendingParseError ==
    (/\ op = "Satellite.from_string"
     /\ Contains(arg.raw_satellite, "_")
     /\ ~IsDirectionWord(AfterFirst(arg.raw_satellite, "_"))
     /\ ~IsDirectionWord(AfterLast(arg.raw_satellite, "_")))
        => res.exc = "AscendingParseException"

\* the satellite record of member name n
SatOf(n, ascending) ==
    [cls |-> "Satellite", satellite_id |-> [cls |-> "SatelliteEnum", name |-> n],
     ascending |-> ascending]

KnownSatId(s) == \E n \in SatelliteEnumMembers : CaseVariantOf(s, n)

\* C4: for a known SATID in any casing, "SATID" and "SATID_BOTH" give
\* exactly [ascending, descending], "SATID_ASC" exactly [ascending],
\* "SATID_DESC" exactly [descending]; an unknown SATID with no suffix or a
\* valid suffix fails with ValueError.
C4_SatelliteFromStringForms ==
    op = "Satellite.from_string" =>
        LET raw == arg.raw_satellite
        IN /\ \A n \in SatelliteEnumMembers :
                /\ (CaseVariantOf(raw, n) \/ CaseVariantOf(raw, n \o <<"_","B","O","T","H">>))
                      => (res.exc = "" /\ res.val = <<SatOf(n, TRUE), SatOf(n, FALSE)>>)
                /\ CaseVariantOf(raw, n \o <<"_","A","S","C">>)
                      => (res.exc = "" /\ res.val = <<SatOf(n, TRUE)>>)
                /\ CaseVariantOf(raw, n \o <<"_","D","E","S","C">>)
                      => (res.exc = "" /\ res.val = <<SatOf(n, FALSE)>>)
           /\ \A k \in 0..Len(raw) :
                LET sid == SubSeq(raw, 1, k)
                    suffix == SubSeq(raw, k + 1, Len(raw))
                IN (/\ ~Contains(sid, "_")
                    /\ ~KnownSatId(sid)
                    /\ \/ suffix = <<>>
                       \/ /\ Len(suffix) > 0
                          /\ Head(suffix) = "_"
                          /\ IsDirectionWord(Tail(suffix)))
                       => res.exc = "ValueError"

C4_Witness ==
    /\ op = "Satellite.from_string"
    /\ Contains(arg.raw_satellite, "_")
    /\ res.exc = ""
    /\ Len(res.val) = 2
    /\ res.val[1].ascending
    /\ ~IsUpperCase(arg.raw_satellite)

\* a string of 8 decimal digits with month 01..12 and day 01..31
WellFormedDate(s) ==
    /\ Len(s) = 8
    /\ AllDecimal(s)
    /\ Base10(SubSeq(s, 5, 6), 0) \in 1..12
    /\ Base10(SubSeq(s, 7, 8), 0) \in 1..31

\* C5: Date construction succeeds exactly for the 8-digit strings with
\* month in [1,12] and day in [1,31], and fails with ValueError otherwise;
\* to_integer() of a constructed Date is the string's base-10 value.
C5_DateAcceptsExactlyDigitStrings ==
    /\ op = "Date" =>
          /\ (res.exc = "") = WellFormedDate(arg.date)
          /\ res.exc \in {"", "ValueError"}
          /\ res.exc = "" => res.val.date = arg.date
    /\ op = "Date.to_integer" =>
          /\ res.exc = ""
          /\ res.val = Base10(arg.self.date, 0)

----------------------------------------------------------------------------
\* from_string's outcome for string s against the member names of cls:
\* the member whose name s is a casing of, ValueError when there is none
ParsesAs(cls, members, s, outcome) ==
    /\ \A n \in members :
          (outcome.exc = "" /\ outcome.val = [cls |-> cls, name |-> n]) <=> CaseVariantOf(s, n)
    /\ (~\E n \in members : CaseVariantOf(s, n)) => outcome.exc = "ValueError"
    /\ outcome.exc \in {"", "ValueError"}

C7_FilterKeepsArguments ==
    op = "HazardInfoFilter" =>
        /\ IsNone(arg.last_n_days) =>
              (res.exc = "" /\ res.val.date_range = arg.date_range)
        /\ res.exc = "" =>
              /\ res.val.satellites = arg.satellites
              /\ res.val.image_types = arg.image_types
              /\ res.val.max_num_images = arg.max_num_images

C7_Witness ==
    /\ op = "HazardInfoFilter"
    /\ IsNone(arg.last_n_days)
    /\ ~IsNone(arg.date_range)
    /\ ~IsNone(arg.date_range.end)
    /\ ~IsNone(arg.satellites)
    /\ res.exc = ""
    /\ res.val.date_range = arg.date_range

\* the last path component of url
LastComponent(url) ==
    IF Contains(url, "/") THEN AfterLast(url, "/") ELSE url

\* the text from the last dot of comp when that dot is not comp's first
\* character, else the empty string
ExtensionFromLastDot(comp) ==
    IF Contains(comp, ".") /\ Len(AfterLast(comp, ".")) < Len(comp) - 1
    THEN <<".">> \o AfterLast(comp, ".")
    ELSE <<>>

\* the text from the last dot of comp when some character of comp before
\* that dot is not a dot, else the empty string
ExtensionAfterName(comp) ==
    IF /\ Contains(comp, ".")
       /\ \E k \in 1..(Len(comp) - Len(AfterLast(comp, ".")) - 1) : comp[k] # "."
    THEN <<".">> \o AfterLast(comp, ".")
    ELSE <<>>

ImageExtensions ==
    { <<".","j","p","g">>, <<".","p","n","g">>, <<".","t","i","f">>, <<".","g","i","f">> }

\* C8 as stated: ImageURL construction succeeds iff the text from the last
\* dot of the last path component, that dot not being the component's
\* leading character, is exactly .jpg, .png, .tif or .gif, and fails with
\* ValueError otherwise.
C8_ExtensionFromLastDot ==
    op = "ImageURL" =>
        /\ (res.exc = "") = (ExtensionFromLastDot(LastComponent(arg.url)) \in ImageExtensions)
        /\ res.exc \in {"", "ValueError"}

\* C8 amended: ImageURL construction succeeds iff the text from the last
\* dot of the last path component, some character of the component before
\* that dot not being a dot, is exactly .jpg, .png, .tif or .gif (compared
\* case-sensitively), and fails with ValueError otherwise.
C8_ExtensionAfterName ==
    op = "ImageURL" =>
        /\ (res.exc = "") = (ExtensionAfterName(LastComponent(arg.url)) \in ImageExtensions)
        /\ res.exc \in {"", "ValueError"}
        /\ res.exc = "" => res.val.url = arg.url

C8_Witness ==
    /\ op = "ImageURL"
    /\ res.exc = ""
    /\ Contains(arg.url, "/")
    /\ Len(LastComponent(arg.url)) > 4
    /\ Head(LastComponent(arg.url)) = "."

\* C9: Location construction succeeds iff -90 <= lat <= 90 and
\* -180 <= long <= 180, bounds included; a failure is the generic Exception
\* and yields no Location.
C9_LocationBoundsInclusive ==
    op = "Location" =>
        LET lat == arg.center.lat
            long == arg.center.long
            inside == /\ ~lat.nan /\ lat.v \in -90..90
                      /\ ~long.nan /\ long.v \in -180..180
        IN /\ (res.exc = "") = inside
           /\ res.exc = "" => res.val = [cls |-> "Location", center |-> arg.center]
           /\ res.exc # "" => (res.exc = "Exception" /\ IsNone(res.val))

C9_Witness ==
    /\ op = "Location"
    /\ res.exc = ""
    /\ arg.center.lat.v = 90
    /\ arg.center.long.v = -180

\* C10: last_n_days = 0 counts as provided: the date_range's start is
\* today's date and its end the explicit date_range's end, or unset.
C10_ZeroDaysIsProvided ==
    (op = "HazardInfoFilter" /\ ~IsNone(arg.last_n_days) /\ arg.last_n_days.v = 0) =>
        /\ res.exc = ""
        /\ ~IsNone(res.val.date_range)
        /\ Base10(res.val.date_range.start.date, 0) = TodayNumeral
        /\ res.val.date_range.end =
               (IF IsNone(arg.date_range) THEN NoneVal ELSE arg.date_range.end)


====
